---- MODULE Spec2Model ----
(***************************************************************************)
(* Designo: the Figma plugin's orchestration layer.                        *)
(*                                                                         *)
(* Two versions of the plugin main file live in the repository:            *)
(*   "oauth" : src/Plugin/code.js       (OAuth Backend Version)            *)
(*   "auth"  : src/unnamed/part_001     (Backend + Auth Version)           *)
(* The variable version, fixed by Init, says which one is running.         *)
(*                                                                         *)
(* A handler is an async function: it runs from one await to the next      *)
(* without interruption, so one action is one such synchronous segment.    *)
(* A handler suspended at an await is an entry of tasks.                   *)
(***************************************************************************)
EXTENDS Integers, Sequences, FiniteSets, TLC

VARIABLES
    version,             \* which plugin file is running
    user,                \* what the user does meanwhile: "idle", "selects", "edits"
    children,            \* node id -> ordered child ids (the document tree)
    geom,                \* node id -> [x, y, w, h]
    alloc,               \* ids of the nodes that have been created
    selection,           \* figma.currentPage.selection
    selPending,          \* a selectionchange event is queued
    isProcessing,        \* the busy flag
    lastNotifiedMode,
    lastNotifiedFrameId,
    lastSent,            \* the context of the last message the resolver posted
    taken,               \* requests taken up so far
    tasks,               \* handler invocations suspended at an await
    uiPending,           \* proceed-to-backend-* messages the UI has not answered
    posted,              \* messages the last segment posted to the UI
    ev                   \* what the last segment was (history)

vars == <<version, user, children, geom, alloc, selection, selPending, isProcessing,
          lastNotifiedMode, lastNotifiedFrameId, lastSent, taken, tasks, uiPending,
          posted, ev>>

docVars == <<children, geom, alloc>>

(***************************************************************************)
(* Bounds of the model.                                                    *)
(***************************************************************************)
\* requests (request-ai-context, request-ai-generation) the plugin takes up in
\* one run while the user is idle; each leads to at most one created node
MaxRequests == 2
\* the same, in a run where the user changes the selection or edits the document
MaxUserRequests == 1

(***************************************************************************)
(* The document.                                                           *)
(***************************************************************************)
Null == "null"

NewPool == <<"N1", "N2", "N3", "N4">>
NewIds == {NewPool[k] : k \in 1..MaxRequests}
UserIds == {"U1"}
Ids == {"P", "F1", "F2", "T", "K", "E", "S"} \cup UserIds \cup NewIds

\* createNodeFromSvg returns a FrameNode
NodeType(n) ==
    IF n = "P" THEN "PAGE"
    ELSE IF n \in {"F1", "F2"} \cup NewIds THEN "FRAME"
    ELSE IF n = "T" THEN "GROUP"
    ELSE "RECTANGLE"

Geom(x, y, w, h) == [x |-> x, y |-> y, w |-> w, h |-> h]

\* the sizes an imported SVG may have
NaturalSizes == {[w |-> 600, h |-> 100], [w |-> 100, h |-> 20]}

Range(s) == {s[i] : i \in 1..Len(s)}

IndexOf(s, n) == IF n \in Range(s) THEN CHOOSE i \in 1..Len(s) : s[i] = n ELSE 0

RemoveAt(s, i) == SubSeq(s, 1, i - 1) \o SubSeq(s, i + 1, Len(s))

Without(s, n) == IF n \in Range(s) THEN RemoveAt(s, IndexOf(s, n)) ELSE s

\* s with n placed so that i elements of s precede it
InsertAt(s, i, n) == SubSeq(s, 1, i) \o <<n>> \o SubSeq(s, i + 1, Len(s))

ParentIn(ch, n) ==
    IF \E c \in Ids : n \in Range(ch[c])
    THEN CHOOSE c \in Ids : n \in Range(ch[c])
    ELSE Null

RECURSIVE AttachedIn(_, _)
AttachedIn(ch, n) ==
    IF n = "P" THEN TRUE
    ELSE IF ParentIn(ch, n) = Null THEN FALSE
    ELSE AttachedIn(ch, ParentIn(ch, n))

Parent(n) == ParentIn(children, n)

\* node.removed
Removed(n) == ~AttachedIn(children, n)

\* a lookup that still finds a node that was removed from the document
LookupRemoved(id) == IF id \in alloc THEN id ELSE Null

\* figma.getNodeByIdAsync(id) once it has resolved: the node, or null
Lookup(id) == IF id \in alloc /\ ~Removed(id) THEN id ELSE Null

\* node.remove(): the node leaves its parent's children
DetachIn(ch, n) ==
    LET p == ParentIn(ch, n)
    IN IF p = Null THEN ch ELSE [ch EXCEPT ![p] = Without(@, n)]

\* parent.appendChild(n): n leaves its old parent and becomes the last child
AppendChildIn(ch, p, n) ==
    LET d == DetachIn(ch, n) IN [d EXCEPT ![p] = Append(@, n)]

\* parent.insertChild(i, n) for a node n that comes from another parent
InsertChildIn(ch, p, i, n) ==
    LET d == DetachIn(ch, n) IN [d EXCEPT ![p] = InsertAt(@, i, n)]

\* the lowest id of the pool not yet used
FreshId == CHOOSE n \in NewIds : n \notin alloc /\
               \A k \in 1..MaxRequests : NewPool[k] = n =>
                   \A j \in 1..(k - 1) : NewPool[j] \in alloc

CanCreate == \E n \in NewIds : n \notin alloc

(***************************************************************************)
(* Messages.                                                               *)
(***************************************************************************)
Msg(type) == [type |-> type, mode |-> Null, frameId |-> Null, elem |-> Null]

SelectionUpdate(mode, frameId, elem) ==
    [type |-> "selection-update", mode |-> mode, frameId |-> frameId, elem |-> elem]

PostedTypes == {posted[i].type : i \in 1..Len(posted)}

NoSize == [w |-> 0, h |-> 0]

NoArgs == [mode |-> Null, frameId |-> Null, elemId |-> Null]

\* the history record of a segment
Event(h, seg, out, args, content, fail, new) ==
    [h |-> h, seg |-> seg, out |-> out, args |-> args, content |-> content,
     busy |-> isProcessing, fail |-> fail, new |-> new, nat |-> NoSize, late |-> FALSE]

(***************************************************************************)
(* svgContent values and the check the handlers make on them.              *)
(***************************************************************************)
Str(s) == [t |-> "string", s |-> s]
Undefined == [t |-> "undefined", s |-> <<>>]
Number42 == [t |-> "number", s |-> <<>>]

Contents ==
    { Undefined, Number42,
      Str(<<>>),
      Str(<<"<", "s", "v", "g", ">">>),
      Str(<<" ", "<", "S", "v", "G", " ">>),
      Str(<<"\n", "<", "s", "v", "g">>),
      Str(<<"h", "i">>),
      Str(<<"<", "s", "v">>),
      Str(<<"x", "<", "s", "v", "g">>),
      Str(<<" ", " ">>) }

IsSpace(c) == c \in {" ", "\n", "\t"}

RECURSIVE TrimStart(_)
TrimStart(s) ==
    IF s # <<>> /\ IsSpace(Head(s)) THEN TrimStart(Tail(s)) ELSE s

RECURSIVE TrimEnd(_)
TrimEnd(s) ==
    IF s # <<>> /\ IsSpace(s[Len(s)]) THEN TrimEnd(SubSeq(s, 1, Len(s) - 1)) ELSE s

\* String.prototype.trim
Trim(s) == TrimEnd(TrimStart(s))

LowerChar(c) ==
    CASE c = "S" -> "s" [] c = "V" -> "v" [] c = "G" -> "g" [] OTHER -> c

\* String.prototype.toLowerCase
ToLowerCase(s) == [i \in 1..Len(s) |-> LowerChar(s[i])]

\* String.prototype.startsWith
StartsWith(s, p) == Len(s) >= Len(p) /\ SubSeq(s, 1, Len(p)) = p

\* the check with includes('<svg') in the place of startsWith('<svg')
InvalidSvgIncludes(c) ==
    \/ c.t # "string"
    \/ ~\E i \in 1..Len(c.s) :
          StartsWith(ToLowerCase(SubSeq(c.s, i, Len(c.s))), <<"<", "s", "v", "g">>)

\* !c || typeof c !== 'string' || !c.trim().toLowerCase().startsWith('<svg')
InvalidSvg(c) ==
    \/ c.t = "undefined"
    \/ c.t = "string" /\ c.s = <<>>
    \/ c.t # "string"
    \/ ~StartsWith(ToLowerCase(Trim(c.s)), <<"<", "s", "v", "g">>)

NoContent == Undefined

AnySize == CHOOSE nat \in NaturalSizes : TRUE

(***************************************************************************)
(* The initial document: an empty top-level frame F1 (400 x 300) and a     *)
(* top-level frame F2 holding T, E and S stacked vertically; T is a group   *)
(* that holds K.                                                           *)
(***************************************************************************)
\* the selections the user makes
SelChoices == {<<>>, <<"F1">>, <<"E">>, <<"K">>, <<"E", "S">>}

InitChildren ==
    [n \in Ids |->
        CASE n = "P" -> <<"F1", "F2">>
          [] n = "F2" -> <<"T", "E", "S">>
          [] n = "T" -> <<"K">>
          [] OTHER -> <<>>]

InitGeom ==
    [n \in Ids |->
        CASE n = "F1" -> Geom(0, 0, 400, 300)
          [] n = "F2" -> Geom(500, 0, 400, 600)
          [] n = "T" -> Geom(10, 100, 100, 50)
          [] n = "K" -> Geom(0, 0, 20, 20)
          [] n = "E" -> Geom(10, 200, 100, 50)
          [] n = "S" -> Geom(10, 260, 100, 30)
          [] OTHER -> Geom(0, 0, 0, 0)]

Init ==
    /\ version \in {"oauth", "auth"}
    /\ user \in {"idle", "selects", "edits"}
    /\ children = InitChildren
    /\ geom = InitGeom
    /\ alloc = {"P", "F1", "F2", "T", "K", "E", "S"}
    /\ selection \in (IF version = "oauth" /\ user = "selects" THEN SelChoices ELSE {<<>>})
    /\ selPending = FALSE
    /\ isProcessing = FALSE
    /\ lastNotifiedMode = Null
    /\ lastNotifiedFrameId = Null
    /\ lastSent = [mode |-> Null, frameId |-> Null, elem |-> Null]
    /\ taken = 0
    /\ tasks = <<>>
    /\ uiPending = <<>>
    /\ posted = <<>>
    /\ ev = [h |-> "load", seg |-> "start", out |-> "done", args |-> NoArgs,
             content |-> NoContent, busy |-> FALSE, fail |-> "none", new |-> Null,
             nat |-> NoSize, late |-> FALSE]

(***************************************************************************)
(* The resolver.                                                           *)
(***************************************************************************)
\* the loop of findTopLevelFrame, from a parent upwards
\* a search that looks at the parent only and does not climb further
ClimbOneLevel(p) ==
    IF p = Null THEN Null
    ELSE IF NodeType(p) = "FRAME" /\ Parent(p) # Null /\ NodeType(Parent(p)) = "PAGE" THEN p
    ELSE Null

\* a test that takes any FRAME for a top-level one
IsAnyFrame(n) == NodeType(n) = "FRAME"

\* node.type === "FRAME" && node.parent.type === "PAGE"
IsTopLevelFrame(n) ==
    NodeType(n) = "FRAME" /\ Parent(n) # Null /\ NodeType(Parent(n)) = "PAGE"

RECURSIVE ClimbToFrame(_)
ClimbToFrame(p) ==
    IF p = Null THEN Null
    ELSE IF IsTopLevelFrame(p) THEN p
    ELSE IF NodeType(p) = "PAGE" THEN Null
    ELSE ClimbToFrame(Parent(p))

FindTopLevelFrame(n) ==
    IF IsTopLevelFrame(n) THEN n
    ELSE ClimbToFrame(Parent(n))

\* a resolver that never looks at the frame's children
EmptyFrameUnchecked(tf) == TRUE

\* children.length === 0
EmptyFrame(tf) == children[tf] = <<>>

Context(mode, frameId, elem) == [mode |-> mode, frameId |-> frameId, elem |-> elem]

\* a resolver that takes the first node of any non-empty selection
ResolveOauthFirst ==
    IF Len(selection) >= 1
    THEN LET n == selection[1]
             tf == FindTopLevelFrame(n)
         IN IF tf # Null
            THEN IF n = tf /\ EmptyFrame(tf)
                 THEN Context("create", tf, Null)
                 ELSE IF n # tf /\ Parent(n) # Null /\ NodeType(Parent(n)) # "PAGE"
                 THEN Context("modify", tf, n)
                 ELSE Context("answer", tf, Null)
            ELSE Context("answer", Null, Null)
    ELSE Context("answer", Null, Null)

\* the context updateAndNotifyUI computes from the selection (code.js)
ResolveOauth ==
    IF Len(selection) = 1
    THEN LET n == selection[1]
             tf == FindTopLevelFrame(n)
         IN IF tf # Null
            THEN IF n = tf /\ EmptyFrame(tf)
                 THEN Context("create", tf, Null)
                 ELSE IF n # tf /\ Parent(n) # Null /\ NodeType(Parent(n)) # "PAGE"
                 THEN Context("modify", tf, n)
                 ELSE Context("answer", tf, Null)
            ELSE Context("answer", Null, Null)
    ELSE Context("answer", Null, Null)

\* the selectionchange handler of part_001: the context, or invalid
ResolveAuth ==
    IF Len(selection) # 1 THEN Context("invalid", Null, Null)
    ELSE LET n == selection[1]
             tf == FindTopLevelFrame(n)
         IN IF NodeType(n) = "PAGE" THEN Context("invalid", Null, Null)
            ELSE IF tf = Null THEN Context("invalid", Null, Null)
            ELSE IF n = tf /\ EmptyFrame(tf) THEN Context("create", tf, Null)
            ELSE IF n # tf THEN Context("modify", tf, n)
            ELSE Context("invalid", Null, Null)

\* the plugin's own variables after a segment
Plugin(flag, tk, pend, msgs, e) ==
    /\ isProcessing' = flag
    /\ tasks' = tk
    /\ uiPending' = pend
    /\ posted' = msgs
    /\ ev' = e

notifiedVars == <<lastNotifiedMode, lastNotifiedFrameId, lastSent>>

SelEvent(h, out) == Event(h, "start", out, NoArgs, NoContent, "none", Null)

\* the resolver without its guard
ResolverBusyOff == FALSE

\* the guard of the resolver: nothing is looked at while an operation runs
ResolverBusy == isProcessing

\* a comparison that finds every context new
ChangedAlways(c) == TRUE

\* a comparison that looks at the frame only
ChangedFrameOnly(c) == c.frameId # lastNotifiedFrameId

\* the comparison that decides whether the UI is notified
Changed(c) == c.mode # lastNotifiedMode \/ c.frameId # lastNotifiedFrameId

\* updateAndNotifyUI of code.js
UpdateAndNotifyUI(h) ==
    IF ResolverBusy
    THEN /\ Plugin(isProcessing, tasks, uiPending, <<>>, SelEvent(h, "ignored"))
         /\ UNCHANGED notifiedVars
    ELSE LET c == ResolveOauth
         IN IF Changed(c)
            THEN /\ lastNotifiedMode' = c.mode
                 /\ lastNotifiedFrameId' = c.frameId
                 /\ lastSent' = c
                 /\ Plugin(isProcessing, tasks, uiPending,
                           <<SelectionUpdate(c.mode, c.frameId, c.elem)>>,
                           SelEvent(h, "posted"))
            ELSE /\ Plugin(isProcessing, tasks, uiPending, <<>>, SelEvent(h, "quiet"))
                 /\ UNCHANGED notifiedVars

\* the selectionchange handler of part_001
SelectionChangeAuth(h) ==
    IF ResolverBusy
    THEN /\ Plugin(isProcessing, tasks, uiPending, <<>>, SelEvent(h, "ignored"))
         /\ UNCHANGED notifiedVars
    ELSE LET c == ResolveAuth
         IN IF c.mode = "invalid"
            THEN /\ lastNotifiedFrameId' = Null
                 /\ lastNotifiedMode' = "answer"
                 /\ lastSent' = Context("invalid", Null, Null)
                 /\ Plugin(isProcessing, tasks, uiPending,
                           <<Msg("selection-invalid")>>, SelEvent(h, "invalid"))
            ELSE IF \/ c.frameId # lastNotifiedFrameId
                    \/ c.mode # lastNotifiedMode
                    \/ c.mode = "modify"
            THEN /\ lastNotifiedFrameId' = c.frameId
                 /\ lastNotifiedMode' = c.mode
                 /\ lastSent' = c
                 /\ Plugin(isProcessing, tasks, uiPending,
                           <<SelectionUpdate(c.mode, c.frameId, c.elem)>>,
                           SelEvent(h, "posted"))
            ELSE /\ Plugin(isProcessing, tasks, uiPending, <<>>, SelEvent(h, "quiet"))
                 /\ UNCHANGED notifiedVars

\* figma.on("selectionchange", ...)
SelectionChange ==
    /\ selPending
    /\ selPending' = FALSE
    /\ IF version = "oauth"
       THEN UpdateAndNotifyUI("selectionchange")
       ELSE SelectionChangeAuth("selectionchange")
    /\ UNCHANGED <<version, user, taken, docVars, selection>>

(***************************************************************************)
(* The user, editing the document while the plugin runs.                   *)
(***************************************************************************)
Quiet(h) ==
    /\ posted' = <<>>
    /\ ev' = Event(h, "start", "done", NoArgs, NoContent, "none", Null)

UserSelect(s) ==
    /\ user = "selects"
    /\ s # selection
    /\ \A i \in 1..Len(s) : Lookup(s[i]) # Null
    /\ selection' = s
    /\ selPending' = TRUE
    /\ Quiet("user-select")
    /\ UNCHANGED <<version, user, taken, docVars, isProcessing, notifiedVars, tasks, uiPending>>

\* what is left of a selection once nodes have left the document
Surviving(ch, s) == SelectSeq(s, LAMBDA n : AttachedIn(ch, n))

UserDelete(n) ==
    /\ user = "edits"
    /\ n \in {"F1", "F2", "E"}
    /\ Lookup(n) # Null
    /\ children' = DetachIn(children, n)
    /\ selection' = Surviving(children', selection)
    /\ selPending' = (selPending \/ selection' # selection)
    /\ Quiet("user-delete")
    /\ UNCHANGED <<version, user, taken, geom, alloc, isProcessing, notifiedVars, tasks, uiPending>>

UserAddChild(f, u) ==
    /\ user = "edits"
    /\ f \in {"F1", "F2"}
    /\ Lookup(f) # Null
    /\ u \in UserIds \ alloc
    /\ alloc' = alloc \cup {u}
    /\ children' = [children EXCEPT ![f] = Append(@, u)]
    /\ geom' = [geom EXCEPT ![u] = Geom(10, 10, 50, 50)]
    /\ Quiet("user-add")
    /\ UNCHANGED <<version, user, taken, selection, selPending, isProcessing,
                   notifiedVars, tasks, uiPending>>

\* the user drags the element out of its frame: onto the page, or into F1
UserMove(n, p) ==
    /\ user = "edits"
    /\ n = "E" /\ p \in {"P", "F1"}
    /\ Lookup(n) # Null /\ Lookup(p) # Null
    /\ Parent(n) # p
    /\ children' = AppendChildIn(children, p, n)
    /\ Quiet("user-move")
    /\ UNCHANGED <<version, user, taken, geom, alloc, selection, selPending, isProcessing,
                   notifiedVars, tasks, uiPending>>

(***************************************************************************)
(* request-ai-context (code.js).                                           *)
(***************************************************************************)
Args(mode, frameId, elemId) == [mode |-> mode, frameId |-> frameId, elemId |-> elemId]

\* the {mode, frameId, elementInfo} of the requests the UI sends: the contexts the
\* resolver can have reported for the initial document, and malformed ones
Requests ==
    { Args("create", "F1", Null), Args("modify", "F2", "E"),
      Args("create", Null, Null), Args("modify", "F2", Null),
      Args("create", "E", Null), Args("answer", Null, Null),
      Args("answer", "F2", Null) }

\* a suspended handler invocation; late: the flag was already up when its message came
Task(h, pc, args) == [h |-> h, pc |-> pc, args |-> args, late |-> isProcessing]

Pending(kind, frameId, elemId) == [kind |-> kind, frameId |-> frameId, elemId |-> elemId]

\* the requests one run takes up
Budget == IF user = "idle" THEN MaxRequests ELSE MaxUserRequests

otherVars == <<version, user, docVars, selection, selPending, notifiedVars>>

allOtherVars == <<otherVars, taken>>

\* a catch block that dispatches the modify request all the same
ContextErrorProceeds(rest, seg, args, fail) ==
    Plugin(isProcessing, rest, uiPending, <<Msg("proceed-to-backend-modify")>>,
           Event("request-ai-context", seg, "error", args, NoContent, fail, Null))

\* the catch block of request-ai-context: the flag is reset and the error reported
\* a catch block that posts the error and forgets the flag
ContextErrorKeepsFlag(rest, seg, args, fail) ==
    Plugin(isProcessing, rest, uiPending, <<Msg("backend-error")>>,
           Event("request-ai-context", seg, "error", args, NoContent, fail, Null))

\* the catch block of request-ai-context
ContextError(rest, seg, args, fail) ==
    Plugin(FALSE, rest, uiPending, <<Msg("backend-error")>>,
           Event("request-ai-context", seg, "error", args, NoContent, fail, Null))

\* request-ai-context without its busy guard
ContextGuardOff == FALSE

\* the busy guard of request-ai-context
ContextGuard == isProcessing

\* from the message's arrival to the first await
RequestAiContext(mode, frameId, elemId) ==
    /\ version = "oauth"
    /\ isProcessing \/ taken < Budget
    /\ taken' = IF ContextGuard THEN taken ELSE taken + 1
    /\ LET args == Args(mode, frameId, elemId)
       IN IF ContextGuard
          THEN Plugin(isProcessing, tasks, uiPending, <<>>,
                      Event("request-ai-context", "start", "ignored", NoArgs,
                            NoContent, "none", Null))
          ELSE IF mode \in {"create", "modify"} /\ frameId = Null
          THEN ContextError(tasks, "start", args, "none")
          ELSE IF frameId # Null
          THEN Plugin(TRUE, Append(tasks, Task("request-ai-context", "frame", args)),
                      uiPending, <<>>,
                      Event("request-ai-context", "start", "suspended", args,
                            NoContent, "none", Null))
          ELSE ContextError(tasks, "start", args, "none")
    /\ UNCHANGED otherVars

\* after the lookup of the frame: it resolved, or it rejected (outside the try)
ContextFrame(i, rejects) ==
    /\ i \in 1..Len(tasks)
    /\ tasks[i].h = "request-ai-context" /\ tasks[i].pc = "frame"
    /\ LET t == tasks[i]
           a == t.args
           rest == RemoveAt(tasks, i)
           f == Lookup(a.frameId)
       IN IF rejects
          THEN Plugin(isProcessing, rest, uiPending, <<>>,
                      Event("request-ai-context", "frame", "unhandled", a,
                            NoContent, "lookup", Null))
          ELSE IF f = Null \/ NodeType(f) # "FRAME"
          THEN ContextError(rest, "frame", a, "none")
          ELSE IF a.mode = "create"
          THEN IF Len(children[f]) > 0
               THEN ContextError(rest, "frame", a, "none")
               ELSE Plugin(isProcessing, rest,
                           Append(uiPending, Pending("create", a.frameId, Null)),
                           <<Msg("status-update"),
                             [Msg("proceed-to-backend-create") EXCEPT !.frameId = a.frameId]>>,
                           Event("request-ai-context", "frame", "proceed", a,
                                 NoContent, "none", Null))
          ELSE IF a.mode = "modify"
          THEN IF a.elemId = Null
               THEN ContextError(rest, "frame", a, "none")
               ELSE Plugin(isProcessing, [tasks EXCEPT ![i].pc = "elem"], uiPending, <<>>,
                           Event("request-ai-context", "frame", "suspended", a,
                                 NoContent, "none", Null))
          ELSE ContextError(rest, "frame", a, "none")
    /\ UNCHANGED allOtherVars

\* after the lookup of the element (inside the try): the exports start
ContextElement(i, rejects) ==
    /\ i \in 1..Len(tasks)
    /\ tasks[i].h = "request-ai-context" /\ tasks[i].pc = "elem"
    /\ LET a == tasks[i].args
           rest == RemoveAt(tasks, i)
       IN IF rejects
          THEN ContextError(rest, "elem", a, "lookup")
          ELSE IF Lookup(a.elemId) = Null
          THEN ContextError(rest, "elem", a, "none")
          ELSE Plugin(isProcessing, [tasks EXCEPT ![i].pc = "export"], uiPending,
                      <<Msg("status-update")>>,
                      Event("request-ai-context", "elem", "suspended", a,
                            NoContent, "none", Null))
    /\ UNCHANGED allOtherVars

\* after Promise.all of the two exports
ContextExport(i, rejects) ==
    /\ i \in 1..Len(tasks)
    /\ tasks[i].h = "request-ai-context" /\ tasks[i].pc = "export"
    /\ LET a == tasks[i].args
           rest == RemoveAt(tasks, i)
       IN IF rejects
          THEN ContextError(rest, "export", a, "export")
          ELSE Plugin(isProcessing, rest,
                      Append(uiPending, Pending("modify", a.frameId, a.elemId)),
                      <<[Msg("proceed-to-backend-modify") EXCEPT !.elem = a.elemId]>>,
                      Event("request-ai-context", "export", "proceed", a,
                            NoContent, "none", Null))
    /\ UNCHANGED allOtherVars

(***************************************************************************)
(* request-ai-generation (part_001).  The whole handler is one try block.  *)
(***************************************************************************)
GenerationEvent(seg, out, args, fail, late) ==
    [Event("request-ai-generation", seg, out, args, NoContent, fail, Null)
        EXCEPT !.late = late]

GenerationError(rest, seg, args, fail, late, msgs) ==
    Plugin(FALSE, rest, uiPending, msgs \o <<Msg("modification-error")>>,
           GenerationEvent(seg, "error", args, fail, late))

\* mode 'answer': the flag is reset and nothing is posted for it
GenerationAnswer(rest, seg, args, late, msgs) ==
    Plugin(FALSE, rest, uiPending, msgs,
           GenerationEvent(seg, "answer", args, "none", late))

\* from the message's arrival to the first await; the flag is raised without
\* being read first
RequestAiGeneration(mode, frameId, elemId) ==
    /\ version = "auth"
    /\ taken < Budget
    /\ taken' = taken + 1
    /\ LET args == Args(mode, frameId, elemId)
           status == <<Msg("status-update")>>
       IN IF frameId # Null
          THEN Plugin(TRUE, Append(tasks, Task("request-ai-generation", "frame", args)),
                      uiPending, status,
                      GenerationEvent("start", "suspended", args, "none", isProcessing))
          ELSE IF mode # "answer"
          THEN GenerationError(tasks, "start", args, "none", isProcessing, status)
          ELSE GenerationAnswer(tasks, "start", args, isProcessing, status)
    /\ UNCHANGED otherVars

\* after the lookup of the frame
GenerationFrame(i, rejects) ==
    /\ i \in 1..Len(tasks)
    /\ tasks[i].h = "request-ai-generation" /\ tasks[i].pc = "frame"
    /\ LET a == tasks[i].args
           rest == RemoveAt(tasks, i)
           f == Lookup(a.frameId)
       IN IF rejects
          THEN GenerationError(rest, "frame", a, "lookup", tasks[i].late, <<>>)
          ELSE IF f = Null \/ NodeType(f) # "FRAME"
          THEN GenerationError(rest, "frame", a, "none", tasks[i].late, <<>>)
          ELSE IF a.mode = "modify"
          THEN IF a.elemId = Null
               THEN GenerationError(rest, "frame", a, "none", tasks[i].late, <<>>)
               ELSE Plugin(isProcessing, [tasks EXCEPT ![i].pc = "elem"], uiPending, <<>>,
                           GenerationEvent("frame", "suspended", a, "none", tasks[i].late))
          ELSE IF a.mode = "create"
          THEN IF Len(children[f]) > 0
               THEN GenerationError(rest, "frame", a, "none", tasks[i].late, <<>>)
               ELSE Plugin(isProcessing, rest,
                           Append(uiPending, Pending("create", a.frameId, Null)),
                           <<Msg("status-update"),
                             [Msg("proceed-to-backend-text") EXCEPT !.frameId = a.frameId]>>,
                           GenerationEvent("frame", "proceed", a, "none", tasks[i].late))
          ELSE IF a.mode = "answer"
          THEN GenerationAnswer(rest, "frame", a, tasks[i].late, <<>>)
          ELSE GenerationError(rest, "frame", a, "none", tasks[i].late, <<>>)
    /\ UNCHANGED allOtherVars

\* after the lookup of the element: the exports start
GenerationElement(i, rejects) ==
    /\ i \in 1..Len(tasks)
    /\ tasks[i].h = "request-ai-generation" /\ tasks[i].pc = "elem"
    /\ LET a == tasks[i].args
           rest == RemoveAt(tasks, i)
       IN IF rejects
          THEN GenerationError(rest, "elem", a, "lookup", tasks[i].late, <<>>)
          ELSE IF Lookup(a.elemId) = Null
          THEN GenerationError(rest, "elem", a, "none", tasks[i].late, <<>>)
          ELSE Plugin(isProcessing, [tasks EXCEPT ![i].pc = "export"], uiPending,
                      <<Msg("status-update")>>,
                      GenerationEvent("elem", "suspended", a, "none", tasks[i].late))
    /\ UNCHANGED allOtherVars

\* after Promise.all of the two exports
GenerationExport(i, rejects) ==
    /\ i \in 1..Len(tasks)
    /\ tasks[i].h = "request-ai-generation" /\ tasks[i].pc = "export"
    /\ LET a == tasks[i].args
           rest == RemoveAt(tasks, i)
       IN IF rejects
          THEN GenerationError(rest, "export", a, "export", tasks[i].late, <<>>)
          ELSE Plugin(isProcessing, rest,
                      Append(uiPending, Pending("modify", a.frameId, a.elemId)),
                      <<[Msg("proceed-to-backend-vision") EXCEPT !.elem = a.elemId]>>,
                      GenerationEvent("export", "proceed", a, "none", tasks[i].late))
    /\ UNCHANGED allOtherVars

(***************************************************************************)
(* The Artifact Applier: what the try blocks of finalize-creation and      *)
(* replace-element-with-svg do to the document.  fail names the facade     *)
(* call that throws, "none" when none does.                                *)
(***************************************************************************)
Outcome(ch, g, al, sel, ok, new) ==
    [ch |-> ch, g |-> g, al |-> al, sel |-> sel, ok |-> ok, new |-> new]

\* figma.createNodeFromSvg: the new node is a child of the page, at its natural size
CreatedChildren(new) == [children EXCEPT !["P"] = Append(@, new)]
CreatedGeom(new, nat) == [geom EXCEPT ![new] = Geom(0, 0, nat.w, nat.h)]

\* a placement that centres the node horizontally only
CenteredAcross(g, f, new) ==
    [g EXCEPT ![new].x = (g[f].w \div 2) - (g[new].w \div 2)]

\* newNode.x = frame.width / 2 - newNode.width / 2, and y alike (every size of
\* the model is even, so the halves are exact)
Centered(g, f, new) ==
    [g EXCEPT ![new].x = (g[f].w \div 2) - (g[new].w \div 2),
              ![new].y = (g[f].h \div 2) - (g[new].h \div 2)]

\* part_001 appends the node and leaves it where the importer put it
Uncentered(g, f, new) == g

\* a placement that also clamps the node to the frame's width and height
PlacedAndClamped(g, f, new) ==
    LET c == [g EXCEPT ![new].w = IF @ > g[f].w THEN g[f].w ELSE @,
                       ![new].h = IF @ > g[f].h THEN g[f].h ELSE @]
    IN IF version = "oauth" THEN Centered(c, f, new) ELSE c

\* the geometry finalize-creation gives the appended node
PlacedInFrame(g, f, new) ==
    IF version = "oauth" THEN Centered(g, f, new) ELSE Uncentered(g, f, new)

FinalizeFails ==
    {"none", "create", "createNull", "append", "select", "viewport"}
        \cup (IF version = "oauth" THEN {"position"} ELSE {})

\* the try block of finalize-creation on frame f
FinalizeApply(f, nat, fail) ==
    IF fail \in {"create", "createNull"}
    THEN Outcome(children, geom, alloc, selection, FALSE, Null)
    ELSE LET new == FreshId
             al1 == alloc \cup {new}
             ch1 == CreatedChildren(new)
             g1 == CreatedGeom(new, nat)
             ch2 == AppendChildIn(ch1, f, new)
             g2 == PlacedInFrame(g1, f, new)
         IN IF fail = "append" THEN Outcome(ch1, g1, al1, selection, FALSE, new)
            ELSE IF fail = "position" THEN Outcome(ch2, g1, al1, selection, FALSE, new)
            ELSE IF fail = "select" THEN Outcome(ch2, g2, al1, selection, FALSE, new)
            ELSE IF fail = "viewport" THEN Outcome(ch2, g2, al1, <<new>>, FALSE, new)
            ELSE Outcome(ch2, g2, al1, <<new>>, TRUE, new)

\* the parent the catch block compares newNode.parent with: the parent captured
\* before the try (code.js), originalElement?.parent read anew (part_001)
CleanupParent(ch, o, parent) ==
    IF version = "oauth" THEN parent ELSE ParentIn(ch, o)

\* the cleanup of the catch block of replace-element-with-svg
Cleanup(ch, new, o, parent) ==
    IF AttachedIn(ch, new) /\ ParentIn(ch, new) # CleanupParent(ch, o, parent)
    THEN DetachIn(ch, new)
    ELSE ch

\* the outcome of a failed replacement, after the catch block
Failed(ch, g, al, sel, new, o, parent) ==
    LET c == Cleanup(ch, new, o, parent)
    IN Outcome(c, g, al, Surviving(c, sel), FALSE, new)

\* an insertion in front of every child
InsertIndexFirst(idx) == 0

\* where the new node is inserted: at the original's index (code.js),
\* at index + 1 (part_001); idx counts from 0
InsertIndex(idx) == IF version = "oauth" THEN idx ELSE idx + 1

\* code.js swallows a failing resize; in part_001 it reaches the outer catch
ResizeIsFatal == version = "auth"

\* a copy of the constraints whose throw reaches the outer catch
ConstraintsThrowEscapes == TRUE

\* the copy of the constraints has a try of its own in both files: its throw
\* is logged and the handler goes on
ConstraintsIsFatal == FALSE

\* newNode.x = originalX; newNode.y = originalY
Positioned(g, new, o) == [g EXCEPT ![new].x = g[o].x, ![new].y = g[o].y]

\* a variant that keeps the natural size and moves the siblings below the
\* original by the difference of the heights
ReflowedInstead(g, new, o) ==
    [n \in DOMAIN g |->
        IF /\ n \in Range(children[Parent(o)]) \ {o}
           /\ g[n].y >= g[o].y + g[o].h
        THEN [g[n] EXCEPT !.y = @ + g[new].h - g[o].h]
        ELSE g[n]]

\* a resize that takes over the original's width alone
ResizedAcross(g, new, o) == [g EXCEPT ![new].w = g[o].w]

\* newNode.resize(originalWidth, originalHeight)
Resized(g, new, o) == [g EXCEPT ![new].w = g[o].w, ![new].h = g[o].h]

\* the replacement without the removal of the original
OriginalKept(ch, o) == ch

\* the original is moved behind its siblings and stays in the parent
OriginalSentBack(ch, o) == AppendChildIn(ch, ParentIn(ch, o), o)

\* originalElement.remove()
OriginalRemoved(ch, o) == DetachIn(ch, o)

ReplaceFails ==
    {"none", "create", "createNull", "insert", "position", "resize", "constraints",
     "remove", "select", "viewport"}

Step(ch, g) == [ch |-> ch, g |-> g]

\* a try block that removes the original before it inserts the new node
ReplaceStepsRemoveFirst(o, nat) ==
    LET parent == Parent(o)
        new == FreshId
        ch1 == CreatedChildren(new)
        g1 == CreatedGeom(new, nat)
        index == IndexOf(children[parent], o) - 1
        ch2 == OriginalRemoved(ch1, o)
        g2 == Positioned(g1, new, o)
        g3 == Resized(g2, new, o)
        ch3 == InsertChildIn(ch2, parent, index, new)
    IN <<Step(ch1, g1), Step(ch2, g1), Step(ch2, g2), Step(ch2, g3), Step(ch3, g3)>>

\* the document after each statement of the try block of
\* replace-element-with-svg when none throws: createNodeFromSvg, insertChild,
\* the assignments to x and y, resize, originalElement.remove()
ReplaceSteps(o, nat) ==
    LET parent == Parent(o)
        new == FreshId
        ch1 == CreatedChildren(new)
        g1 == CreatedGeom(new, nat)
        index == IndexOf(children[parent], o) - 1
        ch2 == InsertChildIn(ch1, parent, InsertIndex(index), new)
        g2 == Positioned(g1, new, o)
        g3 == Resized(g2, new, o)
        ch3 == OriginalRemoved(ch2, o)
    IN <<Step(ch1, g1), Step(ch2, g1), Step(ch2, g2), Step(ch2, g3), Step(ch3, g3)>>

\* the try block and the catch block of replace-element-with-svg on element o
ReplaceApply(o, nat, fail) ==
    IF fail \in {"create", "createNull"}
    THEN Outcome(children, geom, alloc, selection, FALSE, Null)
    ELSE LET parent == Parent(o)
             new == FreshId
             al1 == alloc \cup {new}
             s == ReplaceSteps(o, nat)
             ch1 == s[1].ch
             g1 == s[1].g
             ch2 == s[2].ch
             g2 == s[3].g
             g3 == IF fail = "resize" THEN g2 ELSE s[4].g
             ch3 == s[5].ch
             sel3 == Surviving(ch3, selection)
         IN IF fail = "insert" THEN Failed(ch1, g1, al1, selection, new, o, parent)
            ELSE IF fail = "position" THEN Failed(ch2, g1, al1, selection, new, o, parent)
            ELSE IF fail = "resize" /\ ResizeIsFatal
            THEN Failed(ch2, g2, al1, selection, new, o, parent)
            ELSE IF fail = "constraints" /\ ConstraintsIsFatal
            THEN Failed(ch2, IF version = "oauth" THEN g3 ELSE g2, al1, selection, new, o,
                        parent)
            ELSE IF fail = "remove" THEN Failed(ch2, g3, al1, selection, new, o, parent)
            ELSE IF fail = "select" THEN Failed(ch3, g3, al1, sel3, new, o, parent)
            ELSE IF fail = "viewport" THEN Failed(ch3, g3, al1, <<new>>, new, o, parent)
            ELSE Outcome(ch3, g3, al1, <<new>>, TRUE, new)

\* the document and the selection after an applier ran
Applied(r) ==
    /\ children' = r.ch
    /\ geom' = r.g
    /\ alloc' = r.al
    /\ selection' = r.sel
    /\ selPending' = (selPending \/ r.sel # selection)

docSelVars == <<docVars, selection, selPending>>

(***************************************************************************)
(* finalize-creation.  The UI sends it to answer a proceed-to-backend-     *)
(* create message, with the frame id that message carried.                 *)
(***************************************************************************)
ApplyError(h, rest, seg, args, fail, new) ==
    Plugin(FALSE, rest, uiPending, <<Msg("status-update"), Msg("modification-error")>>,
           Event(h, seg, "error", args, NoContent, fail, new))

RejectError(h, rest, pend, seg, args, content) ==
    Plugin(FALSE, rest, pend, <<Msg("modification-error")>>,
           Event(h, seg, "error", args, content, "none", Null))

\* from the message's arrival to the lookup of the frame
FinalizeCreation(k, content) ==
    /\ k \in 1..Len(uiPending)
    /\ uiPending[k].kind = "create"
    /\ LET args == Args("create", uiPending[k].frameId, Null)
           pend == RemoveAt(uiPending, k)
       IN IF InvalidSvg(content)
          THEN RejectError("finalize-creation", tasks, pend, "start", args, content)
          ELSE Plugin(isProcessing, Append(tasks, Task("finalize-creation", "frame", args)),
                      pend, <<>>,
                      Event("finalize-creation", "start", "suspended", args, content,
                            "none", Null))
    /\ UNCHANGED allOtherVars

\* finalize-creation without the second look at the frame's children
FrameIsEmptyUnchecked(f) == TRUE

\* a check that lets a frame with one child pass
FrameHasRoom(f) == Len(children[f]) <= 1

\* the frame finalize-creation may insert into: it exists, is a FRAME, is empty
FrameIsEmpty(f) == Len(children[f]) = 0

\* after the lookup of the frame (outside the try) to the end of the handler
FinalizeFrame(i, rejects, nat, fail) ==
    /\ i \in 1..Len(tasks)
    /\ tasks[i].h = "finalize-creation" /\ tasks[i].pc = "frame"
    /\ LET a == tasks[i].args
           rest == RemoveAt(tasks, i)
           f == Lookup(a.frameId)
       IN IF rejects
          THEN /\ nat = AnySize /\ fail = "none"
               /\ Plugin(isProcessing, rest, uiPending, <<>>,
                         Event("finalize-creation", "frame", "unhandled", a,
                               NoContent, "lookup", Null))
               /\ UNCHANGED docSelVars
          ELSE IF f = Null \/ NodeType(f) # "FRAME" \/ ~FrameIsEmpty(f)
          THEN /\ nat = AnySize /\ fail = "none"
               /\ RejectError("finalize-creation", rest, uiPending, "frame", a, NoContent)
               /\ UNCHANGED docSelVars
          ELSE /\ fail \in FinalizeFails
               /\ IF fail \in {"create", "createNull"} THEN nat = AnySize ELSE CanCreate
               /\ LET r == FinalizeApply(f, nat, fail)
                  IN /\ Applied(r)
                     /\ IF r.ok
                        THEN Plugin(FALSE, rest, uiPending,
                                    <<Msg("status-update"), Msg("creation-success")>>,
                                    [Event("finalize-creation", "frame", "success", a,
                                           NoContent, fail, r.new) EXCEPT !.nat = nat])
                        ELSE ApplyError("finalize-creation", rest, "frame", a, fail, r.new)
    /\ UNCHANGED <<version, user, taken, notifiedVars>>

(***************************************************************************)
(* replace-element-with-svg.  The UI sends it to answer a proceed-to-      *)
(* backend-modify message, with the element id that message carried.       *)
(***************************************************************************)
\* from the message's arrival to the lookup of the original element
ReplaceElementWithSvg(k, content, originalElementId) ==
    /\ k \in 1..Len(uiPending)
    /\ uiPending[k].kind = "modify"
    /\ originalElementId \in {uiPending[k].elemId, Null}
    /\ LET args == Args("modify", uiPending[k].frameId, originalElementId)
           pend == RemoveAt(uiPending, k)
       IN IF InvalidSvg(content) \/ originalElementId = Null
          THEN RejectError("replace-element-with-svg", tasks, pend, "start", args, content)
          ELSE Plugin(isProcessing,
                      Append(tasks, Task("replace-element-with-svg", "elem", args)),
                      pend, <<>>,
                      Event("replace-element-with-svg", "start", "suspended", args,
                            content, "none", Null))
    /\ UNCHANGED allOtherVars

\* the handler without the look at the original's parent
TopLevelUnchecked(o) == FALSE

\* !parent || parent.type === "PAGE"
TopLevel(o) == Parent(o) = Null \/ NodeType(Parent(o)) = "PAGE"

\* after the lookup of the original (outside the try) to the end of the handler
ReplaceElement(i, rejects, nat, fail) ==
    /\ i \in 1..Len(tasks)
    /\ tasks[i].h = "replace-element-with-svg" /\ tasks[i].pc = "elem"
    /\ LET a == tasks[i].args
           rest == RemoveAt(tasks, i)
           o == Lookup(a.elemId)
       IN IF rejects
          THEN /\ nat = AnySize /\ fail = "none"
               /\ Plugin(isProcessing, rest, uiPending, <<>>,
                         Event("replace-element-with-svg", "elem", "unhandled", a,
                               NoContent, "lookup", Null))
               /\ UNCHANGED docSelVars
          ELSE IF o = Null \/ TopLevel(o)
          THEN /\ nat = AnySize /\ fail = "none"
               /\ RejectError("replace-element-with-svg", rest, uiPending, "elem", a,
                              NoContent)
               /\ UNCHANGED docSelVars
          ELSE /\ fail \in ReplaceFails
               /\ IF fail \in {"create", "createNull"} THEN nat = AnySize ELSE CanCreate
               /\ LET r == ReplaceApply(o, nat, fail)
                  IN /\ Applied(r)
                     /\ IF r.ok
                        THEN Plugin(FALSE, rest, uiPending,
                                    <<Msg("status-update"), Msg("modification-success")>>,
                                    [Event("replace-element-with-svg", "elem", "success",
                                           a, NoContent, fail, r.new) EXCEPT !.nat = nat])
                        ELSE ApplyError("replace-element-with-svg", rest, "elem", a, fail,
                                        r.new)
    /\ UNCHANGED <<version, user, taken, notifiedVars>>

(***************************************************************************)
(* The other inbound messages.                                             *)
(***************************************************************************)
\* the branch without the reset of the flag
ErrorMessageKeepsFlag(k) ==
    /\ k \in 0..Len(uiPending)
    /\ k = 0 => isProcessing
    /\ Plugin(isProcessing, tasks, IF k = 0 THEN uiPending ELSE RemoveAt(uiPending, k),
              <<>>,
              Event("backend-error", "start", "done", NoArgs, NoContent, "none", Null))
    /\ UNCHANGED allOtherVars

\* backend-error / modification-error from the UI; k > 0 when it is the UI's
\* answer to its k-th unanswered proceed message.  With the flag down and no
\* proceed message to answer, the branch changes nothing and is left out.
ErrorMessage(k) ==
    /\ k \in 0..Len(uiPending)
    /\ k = 0 => isProcessing
    /\ Plugin(FALSE, tasks, IF k = 0 THEN uiPending ELSE RemoveAt(uiPending, k), <<>>,
              Event("backend-error", "start", "done", NoArgs, NoContent, "none", Null))
    /\ UNCHANGED allOtherVars

\* a default branch that also empties the selection
UnknownMessageDeselects ==
    /\ isProcessing
    /\ Plugin(FALSE, tasks, uiPending, <<>>,
              Event("unknown", "start", "done", NoArgs, NoContent, "none", Null))
    /\ selection' = <<>>
    /\ UNCHANGED <<version, user, docVars, selPending, notifiedVars, taken>>

\* the default branch; with the flag down it changes nothing and is left out
UnknownMessage ==
    /\ isProcessing
    /\ Plugin(FALSE, tasks, uiPending, <<>>,
              Event("unknown", "start", "done", NoArgs, NoContent, "none", Null))
    /\ UNCHANGED allOtherVars

\* request-initial-selection (code.js): the resolver runs
RequestInitialSelection ==
    /\ version = "oauth"
    /\ UpdateAndNotifyUI("request-initial-selection")
    /\ UNCHANGED <<version, user, taken, docVars, selection, selPending>>

(***************************************************************************)
(* The specification.                                                      *)
(***************************************************************************)
Next ==
    \/ \E s \in SelChoices : UserSelect(s)
    \/ \E n \in Ids : UserDelete(n)
    \/ \E f \in Ids, u \in UserIds : UserAddChild(f, u)
    \/ \E n \in Ids, p \in Ids : UserMove(n, p)
    \/ SelectionChange
    \/ RequestInitialSelection
    \/ \E r \in Requests : RequestAiContext(r.mode, r.frameId, r.elemId)
    \/ \E i \in 1..MaxRequests, rejects \in BOOLEAN : ContextFrame(i, rejects)
    \/ \E i \in 1..MaxRequests, rejects \in BOOLEAN : ContextElement(i, rejects)
    \/ \E i \in 1..MaxRequests, rejects \in BOOLEAN : ContextExport(i, rejects)
    \/ \E r \in Requests : RequestAiGeneration(r.mode, r.frameId, r.elemId)
    \/ \E i \in 1..MaxRequests, rejects \in BOOLEAN : GenerationFrame(i, rejects)
    \/ \E i \in 1..MaxRequests, rejects \in BOOLEAN : GenerationElement(i, rejects)
    \/ \E i \in 1..MaxRequests, rejects \in BOOLEAN : GenerationExport(i, rejects)
    \/ \E k \in 1..MaxRequests, c \in Contents : FinalizeCreation(k, c)
    \/ \E i \in 1..MaxRequests, rejects \in BOOLEAN, nat \in NaturalSizes,
          fail \in ReplaceFails : FinalizeFrame(i, rejects, nat, fail)
    \/ \E k \in 1..MaxRequests, c \in Contents, o \in Ids \cup {Null} :
          ReplaceElementWithSvg(k, c, o)
    \/ \E i \in 1..MaxRequests, rejects \in BOOLEAN, nat \in NaturalSizes,
          fail \in ReplaceFails : ReplaceElement(i, rejects, nat, fail)
    \/ \E k \in 0..MaxRequests : ErrorMessage(k)
    \/ UnknownMessage

Spec == Init /\ [][Next]_vars

\* a suspended handler is resumed: every lookup and every export returns, with
\* a value or with a rejection
Resume ==
    \/ \E i \in 1..MaxRequests, rejects \in BOOLEAN : ContextFrame(i, rejects)
    \/ \E i \in 1..MaxRequests, rejects \in BOOLEAN : ContextElement(i, rejects)
    \/ \E i \in 1..MaxRequests, rejects \in BOOLEAN : ContextExport(i, rejects)
    \/ \E i \in 1..MaxRequests, rejects \in BOOLEAN : GenerationFrame(i, rejects)
    \/ \E i \in 1..MaxRequests, rejects \in BOOLEAN : GenerationElement(i, rejects)
    \/ \E i \in 1..MaxRequests, rejects \in BOOLEAN : GenerationExport(i, rejects)
    \/ \E i \in 1..MaxRequests, rejects \in BOOLEAN, nat \in NaturalSizes,
          fail \in ReplaceFails : FinalizeFrame(i, rejects, nat, fail)
    \/ \E i \in 1..MaxRequests, rejects \in BOOLEAN, nat \in NaturalSizes,
          fail \in ReplaceFails : ReplaceElement(i, rejects, nat, fail)

\* the UI answers a proceed-to-backend message: with finalize-creation, with
\* replace-element-with-svg or with backend-error
UiAnswers ==
    \/ \E k \in 1..MaxRequests, c \in Contents : FinalizeCreation(k, c)
    \/ \E k \in 1..MaxRequests, c \in Contents, o \in Ids \cup {Null} :
          ReplaceElementWithSvg(k, c, o)
    \/ \E k \in 1..MaxRequests : ErrorMessage(k)

\* the event loop runs every continuation that is ready, and the UI answers
\* every message it was sent
FairSpec == Spec /\ WF_vars(Resume) /\ WF_vars(UiAnswers)


(***************************************************************************)
(* Properties.  ev describes the handler segment that made the last step,  *)
(* posted the messages that segment posted; a property that compares the   *)
(* state before a segment with the state after it is a property of steps.  *)
(***************************************************************************)
ReplaceEnded(out) ==
    ev.h = "replace-element-with-svg" /\ ev.seg = "elem" /\ ev.out = out

FinalizeEnded(out) ==
    ev.h = "finalize-creation" /\ ev.seg = "frame" /\ ev.out = out

ErrorTypes == {"backend-error", "modification-error"}

\* C1: in code.js a request-ai-context message handled while isProcessing is
\* true is ignored: nothing is posted, no lookup or export is started, and
\* isProcessing and the document are as before.
C1_BusyRequestIgnored ==
    [][(version = "oauth" /\ isProcessing
            /\ ev'.h = "request-ai-context" /\ ev'.seg = "start")
        => /\ posted' = <<>>
           /\ tasks' = tasks
           /\ uiPending' = uiPending
           /\ isProcessing'
           /\ UNCHANGED docSelVars]_vars

\* a request arrived while an earlier one was still looking its frame up
C1_Witness ==
    /\ ev.h = "request-ai-context" /\ ev.seg = "start" /\ ev.busy
    /\ tasks # <<>>

\* C2: a selectionchange event or a request-initial-selection message handled
\* while isProcessing is true posts no message and leaves lastNotifiedMode
\* and lastNotifiedFrameId as they were, in both versions of the plugin.
C2_BusySelectionDropped ==
    [][(isProcessing /\ ev'.h \in {"selectionchange", "request-initial-selection"})
        => /\ posted' = <<>>
           /\ UNCHANGED notifiedVars]_vars

\* the selection changed during an operation, to one the UI was not told of
C2_Witness ==
    /\ ev.h = "selectionchange" /\ ev.busy
    /\ selection # <<>>
    /\ lastNotifiedFrameId = Null

\* C3: when replace-element-with-svg ends, exactly one of the original and
\* the new node is in the document: after a reported success only the new
\* node, after a reported failure that came once the new node was created
\* only the original.
C3_ExactlyOneRemains ==
    /\ ReplaceEnded("success")
        => AttachedIn(children, ev.new) /\ ~AttachedIn(children, ev.args.elemId)
    /\ (ReplaceEnded("error") /\ ev.new # Null)
        => AttachedIn(children, ev.args.elemId) /\ ~AttachedIn(children, ev.new)

\* C4: finalize-creation inserts only into a frame that has no child at the
\* moment of insertion; when the frame it was prepared for has a child by
\* then, it posts modification-error, leaves the document alone and ends
\* with isProcessing false.
C4_EmptyAtInsertion ==
    [][(ev'.h = "finalize-creation" /\ ev'.seg = "frame" /\ ev'.fail # "lookup")
        => LET f == ev'.args.frameId
           IN /\ children'[f] # children[f] => children[f] = <<>>
              /\ (Lookup(f) # Null /\ children[f] # <<>>)
                    => /\ UNCHANGED docSelVars
                       /\ "modification-error" \in PostedTypes'
                       /\ ~isProcessing']_vars

\* the frame was empty when the request was prepared, and has a child now
C4_Witness ==
    /\ FinalizeEnded("error") /\ ev.fail = "none" /\ ev.new = Null
    /\ Lookup(ev.args.frameId) # Null
    /\ children[ev.args.frameId] # <<>>

\* C5: finalize-creation and replace-element-with-svg reject svgContent that
\* is missing, is no string, or does not start with '<svg' once trimmed and
\* lower-cased, before any lookup: the document is as before, no lookup is
\* started, one modification-error is posted and isProcessing is false.
C5_InvalidContentRejected ==
    [][(/\ ev'.h \in {"finalize-creation", "replace-element-with-svg"}
        /\ ev'.seg = "start"
        /\ ev'.content \notin {Str(<<"<", "s", "v", "g", ">">>),
                               Str(<<" ", "<", "S", "v", "G", " ">>),
                               Str(<<"\n", "<", "s", "v", "g">>)})
        => /\ UNCHANGED docSelVars
           /\ tasks' = tasks
           /\ posted' = <<Msg("modification-error")>>
           /\ ~isProcessing']_vars

\* a string that holds '<svg', but not at its start, was rejected
C5_Witness ==
    /\ ev.h \in {"finalize-creation", "replace-element-with-svg"}
    /\ ev.seg = "start" /\ ev.out = "error"
    /\ ev.content = Str(<<"x", "<", "s", "v", "g">>)

\* C6: after a successful replace-element-with-svg the parent has as many
\* children as before: the new node took the place of the original and no
\* other child came or went.
C6_ChildCountKept ==
    [][(ev'.h = "replace-element-with-svg" /\ ev'.seg = "elem" /\ ev'.out = "success")
        => LET o == ev'.args.elemId
               p == Parent(o)
           IN /\ Len(children'[p]) = Len(children[p])
              /\ Range(children'[p]) = (Range(children[p]) \ {o}) \cup {ev'.new}]_vars

\* a replacement succeeded in a parent of three children
C6_Witness ==
    /\ ReplaceEnded("success")
    /\ Parent(ev.new) # Null
    /\ Len(children[Parent(ev.new)]) = 3

C9_FlagResetOnThrow ==
    (/\ ev.h \in {"request-ai-context", "finalize-creation", "replace-element-with-svg"}
     /\ ev.out \in {"error", "unhandled"}
     /\ ev.fail # "none")
        => /\ ~isProcessing
           /\ PostedTypes \cap ErrorTypes # {}

\* C10: in part_001 a request-ai-generation message received while
\* isProcessing is true starts no export and posts no proceed-to-backend-text
\* or proceed-to-backend-vision message.
C10_BusyGenerationRejected ==
    (version = "auth" /\ ev.h = "request-ai-generation" /\ ev.late)
        => /\ ~(ev.seg = "elem" /\ ev.out = "suspended")
           /\ PostedTypes \cap {"proceed-to-backend-text", "proceed-to-backend-vision"} = {}

\* the node named id is gone: never created, or removed from the document
Gone(id) == id \notin alloc \/ ~AttachedIn(children, id)

\* C11: request-ai-context fails fast on a stale context.  When the frame id
\* is missing for create or modify, when the frame is gone or is no FRAME,
\* when (create) the frame has a child, or when (modify) the element id is
\* missing or the element is gone, the handler ends there: an error message
\* is posted, no proceed message is posted, nothing stays suspended at a
\* lookup or an export, and isProcessing is false.
C11_StaleContextFailsFast ==
    [][(/\ ev'.h = "request-ai-context" /\ ev'.fail = "none"
        /\ LET a == ev'.args
           IN \/ /\ ev'.seg = "start" /\ ~isProcessing
                 /\ a.mode \in {"create", "modify"} /\ a.frameId = Null
              \/ /\ ev'.seg = "frame"
                 /\ \/ Gone(a.frameId)
                    \/ NodeType(a.frameId) # "FRAME"
                    \/ a.mode = "create" /\ children[a.frameId] # <<>>
                    \/ a.mode = "modify" /\ a.elemId = Null
              \/ /\ ev'.seg = "elem"
                 /\ Gone(a.elemId))
        => /\ PostedTypes' \cap ErrorTypes # {}
           /\ PostedTypes' \cap {"proceed-to-backend-create",
                                 "proceed-to-backend-modify"} = {}
           /\ uiPending' = uiPending
           /\ Len(tasks') = Len(tasks) - (IF ev'.seg = "start" THEN 0 ELSE 1)
           /\ \A j \in 1..Len(tasks') : tasks'[j] \in Range(tasks)
           /\ ~isProcessing'
           /\ UNCHANGED docSelVars]_vars

\* the frame of a create request was deleted while it was being looked up
C11_Witness ==
    /\ ev.h = "request-ai-context" /\ ev.seg = "frame" /\ ev.out = "error"
    /\ ev.args.mode = "create"
    /\ ev.args.frameId \in alloc
    /\ Removed(ev.args.frameId)


\* C12: a modify request whose element is still in the document but has lost
\* its relationship to the captured frame (it is now a direct child of the
\* page, or no longer a descendant of the frame named by frameId) fails
\* when the element has been looked up: an error is posted, the handler
\* ends before any export, and isProcessing is false.
C12_MovedElementFails ==
    [][(/\ ev'.h \in {"request-ai-context", "request-ai-generation"}
        /\ ev'.seg = "elem" /\ ev'.fail = "none"
        /\ ~Gone(ev'.args.elemId)
        /\ \/ NodeType(Parent(ev'.args.elemId)) = "PAGE"
           \/ FindTopLevelFrame(ev'.args.elemId) # ev'.args.frameId)
        => /\ PostedTypes' \cap ErrorTypes # {}
           /\ Len(tasks') = Len(tasks) - 1
           /\ ~isProcessing']_vars

\* C13: replace-element-with-svg aborts when originalElementId is missing,
\* when the original is gone, or when its parent is the page: the document
\* and the selection are as before, no node is created, one
\* modification-error is posted and isProcessing is false.
C13_ReplaceAborts ==
    [][(/\ ev'.h = "replace-element-with-svg" /\ ev'.fail # "lookup"
        /\ \/ ev'.seg = "start" /\ ev'.args.elemId = Null
           \/ /\ ev'.seg = "elem"
              /\ \/ Gone(ev'.args.elemId)
                 \/ NodeType(Parent(ev'.args.elemId)) = "PAGE")
        => /\ UNCHANGED docSelVars
           /\ posted' = <<Msg("modification-error")>>
           /\ ~isProcessing']_vars

\* the original was moved onto the page before its replacement arrived
C13_Witness ==
    /\ ReplaceEnded("error") /\ ev.new = Null
    /\ Parent(ev.args.elemId) = "P"

\* C14: when an export of a modify request fails, the request ends in error:
\* an error message is posted, no proceed message is posted, the document
\* is as before and isProcessing is false, in both versions of the plugin.
C14_ExportFailureEnds ==
    [][(/\ ev'.h \in {"request-ai-context", "request-ai-generation"}
        /\ ev'.seg = "export" /\ ev'.fail = "export")
        => /\ PostedTypes' \cap ErrorTypes # {}
           /\ PostedTypes' \cap {"proceed-to-backend-modify",
                                 "proceed-to-backend-vision"} = {}
           /\ uiPending' = uiPending
           /\ UNCHANGED docSelVars
           /\ ~isProcessing']_vars

\* the exports of a modify request for an element of the frame failed
C14_Witness ==
    /\ ev.h \in {"request-ai-context", "request-ai-generation"}
    /\ ev.seg = "export" /\ ev.fail = "export"
    /\ ev.args.mode = "modify"
    /\ Parent(ev.args.elemId) = ev.args.frameId

\* C15: when the UI reports a failure (backend-error or modification-error)
\* while an operation is in flight, isProcessing becomes false and no node
\* of the document is created, moved, resized or removed.
C15_ReportedFailureResets ==
    [][(isProcessing /\ ev'.h = "backend-error")
        => /\ ~isProcessing'
           /\ UNCHANGED docSelVars]_vars

\* the UI reported the failure of a modify operation it had been told to
\* proceed with; the target is where it was
C15_Witness ==
    /\ ev.h = "backend-error" /\ ev.busy
    /\ Len(uiPending) = 0 /\ tasks = <<>>
    /\ Parent("E") = "F2"
    /\ geom["E"] = InitGeom["E"]

\* the resolver ran on the present selection in the last step
ResolverRan ==
    ev.h \in {"selectionchange", "request-initial-selection"} /\ ~ev.busy

\* the selection-update messages of the last step
Updates == {posted[i] : i \in {j \in 1..Len(posted) : posted[j].type = "selection-update"}}

\* C16: for a selection whose size is not 1 the resolver yields no create or
\* modify context: code.js resolves to mode 'answer' with no element, and
\* part_001 posts selection-invalid.
C16_SizeNotOne ==
    (ResolverRan /\ Len(selection) # 1)
        => IF version = "oauth"
           THEN /\ ResolveOauth.mode = "answer" /\ ResolveOauth.elem = Null
                /\ lastNotifiedMode = "answer"
                /\ \A m \in Updates : m.mode = "answer" /\ m.elem = Null
           ELSE /\ ResolveAuth.mode = "invalid"
                /\ posted = <<Msg("selection-invalid")>>

\* the resolver ran on a selection of two nodes
C16_Witness ==
    ResolverRan /\ Len(selection) = 2

\* the context the running version resolves the present selection to
Resolved == IF version = "oauth" THEN ResolveOauth ELSE ResolveAuth

\* C17: the resolver yields mode 'create' exactly when the sole selected node
\* is a FRAME whose parent is the page and which has no child; the frameId
\* it reports is then that node's id, and the element is null.
C17_CreateExactly ==
    ResolverRan
        => LET create == /\ Len(selection) = 1
                         /\ NodeType(selection[1]) = "FRAME"
                         /\ Parent(selection[1]) = "P"
                         /\ children[selection[1]] = <<>>
           IN /\ Resolved.mode = "create" <=> create
              /\ lastNotifiedMode = "create" <=> create
              /\ \A m \in Updates : m.mode = "create" <=> create
              /\ create => /\ Resolved = Context("create", selection[1], Null)
                           /\ lastNotifiedFrameId = selection[1]
                           /\ \A m \in Updates : m.frameId = selection[1] /\ m.elem = Null

\* the empty top-level frame F1 was selected and reported for creation
C17_Witness ==
    /\ ResolverRan
    /\ selection = <<"F1">> /\ children["F1"] = <<>>
    /\ Updates = {SelectionUpdate("create", "F1", Null)}

\* n is a strict descendant of f
RECURSIVE IsUnder(_, _)
IsUnder(n, f) ==
    /\ Parent(n) # Null
    /\ Parent(n) = f \/ IsUnder(Parent(n), f)

\* the top-level frames of the document
TopLevelFrames == {f \in Range(children["P"]) : NodeType(f) = "FRAME"}

\* C18: when the sole selected node is a strict descendant of a top-level
\* FRAME, the resolver yields mode 'modify' with that frame as frameId and
\* the selected node as element; and findTopLevelFrame returns nothing but
\* a FRAME that is a child of the page, or null.
C18_ModifyInsideFrame ==
    /\ \A n \in alloc :
          ~Removed(n) => FindTopLevelFrame(n) \in TopLevelFrames \cup {Null}
    /\ \A f \in TopLevelFrames :
          (ResolverRan /\ Len(selection) = 1 /\ IsUnder(selection[1], f))
              => /\ Resolved = Context("modify", f, selection[1])
                 /\ lastNotifiedMode = "modify" /\ lastNotifiedFrameId = f
                 /\ Updates \subseteq {SelectionUpdate("modify", f, selection[1])}

\* K, two levels below the top-level frame F2, was selected and reported
C18_Witness ==
    /\ ResolverRan
    /\ selection = <<"K">> /\ Parent("K") = "T" /\ Parent("T") = "F2"
    /\ Updates = {SelectionUpdate("modify", "F2", "K")}

\* C19: when the sole selected node is a top-level frame that has a child,
\* the resolver offers neither create nor modify: code.js resolves to
\* 'answer' and part_001 to invalid, with no target element.
C19_FilledFrameUnavailable ==
    (/\ ResolverRan /\ Len(selection) = 1
     /\ selection[1] \in TopLevelFrames
     /\ children[selection[1]] # <<>>)
        => /\ Resolved.mode = (IF version = "oauth" THEN "answer" ELSE "invalid")
           /\ Resolved.elem = Null
           /\ lastNotifiedMode = "answer"
           /\ \A m \in Updates : m.mode = "answer" /\ m.elem = Null
           /\ version = "auth" => posted = <<Msg("selection-invalid")>>

\* F1 was selected after a node had been created in it
C19_Witness ==
    /\ ResolverRan
    /\ selection = <<"F1">>
    /\ \E n \in NewIds : n \in Range(children["F1"])

\* C20: every selection-update message that code.js posts with mode 'answer'
\* carries no container and no target: its frameId (and with it the frame's
\* name) and its element are null.
C20_AnswerCarriesNothing ==
    version = "oauth"
        => \A m \in Updates : m.mode = "answer" => m.frameId = Null /\ m.elem = Null

\* a step of the resolver of code.js taken while no operation runs
IdleResolverStep ==
    /\ version = "oauth"
    /\ ~isProcessing
    /\ ev'.h \in {"selectionchange", "request-initial-selection"}

\* C21: whenever the resolver of code.js runs while idle and the context it
\* resolves differs from the one last sent in mode, frame or element, it posts
\* a selection-update that carries the new context.
C21_ChangedContextPosted ==
    [][(IdleResolverStep /\ ResolveOauth' # lastSent)
         => Updates' = {SelectionUpdate(ResolveOauth'.mode, ResolveOauth'.frameId,
                                        ResolveOauth'.elem)}]_vars

\* C22: the first run of the resolver of code.js, before anything was sent to
\* the UI, posts a selection-update with the context of the current selection,
\* whatever the selection is.
C22_FirstRunPosts ==
    [][(IdleResolverStep /\ lastSent.mode = Null)
         => /\ Updates' = {SelectionUpdate(ResolveOauth'.mode, ResolveOauth'.frameId,
                                           ResolveOauth'.elem)}
            /\ lastSent' = ResolveOauth']_vars

C22_Witness ==
    /\ ev.h = "request-initial-selection" /\ ev.out = "posted"
    /\ lastSent = Context("answer", Null, Null)
    /\ selection = <<>>

\* C23: whenever finalize-creation ends with modification-error after one of
\* its document calls threw, nothing of it is left in the document: the frame
\* still has no child and the node the handler created is not in the document.
C23_NoPartialCreation ==
    (FinalizeEnded("error") /\ ev.fail \notin {"none", "lookup"})
        => /\ children[ev.args.frameId] = <<>>
           /\ ev.new # Null => ~AttachedIn(children, ev.new)

\* the operations under way in code.js: handlers suspended at an await and
\* proceed-to-backend messages the UI has not answered yet
InFlight == Len(tasks) + Len(uiPending)

\* C24: in code.js no request-ai-context passes the busy guard while an earlier
\* operation is still under way, whatever messages arrived in between.
C24_OneInFlight ==
    [][(version = "oauth" /\ ev'.h = "request-ai-context" /\ ev'.seg = "start"
          /\ InFlight > 0)
         => (ev'.out = "ignored" /\ tasks' = tasks)]_vars

\* C25: in code.js, whenever no operation runs, no selectionchange event is
\* waiting and the resolver has sent something before, the context last sent
\* to the UI is the resolution of the current selection.
C25_IdleContextCurrent ==
    (version = "oauth" /\ ~isProcessing /\ ~selPending /\ lastSent.mode # Null)
        => lastSent = ResolveOauth

\* C26: after a successful finalize-creation in code.js the frame has exactly
\* one child, the new node, and that node is centred in the frame with its
\* final size: x = frameWidth/2 - nodeWidth/2 and y = frameHeight/2 - nodeHeight/2.
C26_CreatedNodeCentred ==
    (version = "oauth" /\ FinalizeEnded("success"))
        => /\ children[ev.args.frameId] = <<ev.new>>
           /\ 2 * geom[ev.new].x = geom[ev.args.frameId].w - geom[ev.new].w
           /\ 2 * geom[ev.new].y = geom[ev.args.frameId].h - geom[ev.new].h

C26_Witness ==
    /\ version = "oauth" /\ FinalizeEnded("success")
    /\ ev.args.frameId = "F1" /\ children["F1"] = <<ev.new>>
    /\ geom[ev.new] = Geom(-100, 100, 600, 100)

\* C27: after a successful replace-element-with-svg the new node stands at the
\* index the original had among the parent's children, the other children are
\* in the order they were in, and the new node has the original's x and y; so
\* it is with the insertion at index (code.js) and at index + 1 (part_001).
C27_TakesOriginalsPlace ==
    [][(ev'.h = "replace-element-with-svg" /\ ev'.seg = "elem" /\ ev'.out = "success")
        => LET o == ev'.args.elemId
               p == Parent(o)
           IN /\ children'[p] = [children[p] EXCEPT ![IndexOf(children[p], o)] = ev'.new]
              /\ geom'[ev'.new].x = geom[o].x
              /\ geom'[ev'.new].y = geom[o].y]_vars

\* part_001 replaced E, the middle child of F2
C27_Witness ==
    /\ version = "auth" /\ ReplaceEnded("success")
    /\ ev.args.elemId = "E"
    /\ children["F2"] = <<"T", ev.new, "S">>
    /\ geom[ev.new].x = 10 /\ geom[ev.new].y = 200

\* C28: replace-element-with-svg removes the original only after the new node
\* was inserted and positioned: after each statement of its try block the
\* original or the new node is a child of the parent, the original is gone
\* only once the new node is in the parent at the original's x and y, and a
\* throw before the removal leaves the original in the parent.
C28_RemovedAfterInserted ==
    [][(ev'.h = "replace-element-with-svg" /\ ev'.seg = "elem" /\ ev'.new # Null)
        => LET o == ev'.args.elemId
               p == Parent(o)
               new == ev'.new
               s == ReplaceSteps(o, ev'.nat)
           IN /\ ev'.out = "success"
                    => /\ s[5].ch = children'
                       /\ \A k \in 1..5 :
                             \/ o \in Range(s[k].ch[p])
                             \/ /\ new \in Range(s[k].ch[p])
                                /\ s[k].g[new].x = geom[o].x
                                /\ s[k].g[new].y = geom[o].y
              /\ ev'.fail \in {"insert", "position", "remove"}
                    => o \in Range(children'[p])]_vars

\* a replacement that went through every statement of the try block
C28_Witness ==
    /\ version = "oauth" /\ ReplaceEnded("success") /\ ev.fail = "none"
    /\ ev.args.elemId = "E"
    /\ children["F2"] = <<"T", ev.new, "S">>

C30_ConstraintsThrowHarmless ==
    [][(ev'.h = "replace-element-with-svg" /\ ev'.seg = "elem"
          /\ ev'.fail = "constraints")
        => LET o == ev'.args.elemId
               p == Parent(o)
           IN /\ ev'.out = "success"
              /\ ~AttachedIn(children', o)
              /\ children'[p] = [children[p] EXCEPT ![IndexOf(children[p], o)] = ev'.new]
              /\ geom'[ev'.new].x = geom[o].x
              /\ geom'[ev'.new].y = geom[o].y
              /\ "modification-success" \in PostedTypes'
              /\ PostedTypes' \cap ErrorTypes = {}
              /\ ~isProcessing']_vars

\* the copy of the constraints threw while part_001 replaced E
C30_Witness ==
    /\ version = "auth" /\ ReplaceEnded("success") /\ ev.fail = "constraints"
    /\ ev.args.elemId = "E"
    /\ children["F2"] = <<"T", ev.new, "S">>
    /\ "modification-success" \in PostedTypes

\* the last step was the part of finalize-creation or replace-element-with-svg
\* that runs the try block, and it created a node
Mutated ==
    /\ \/ ev.h = "finalize-creation" /\ ev.seg = "frame"
       \/ ev.h = "replace-element-with-svg" /\ ev.seg = "elem"
    /\ ev.new # Null

\* C31: whenever finalize-creation or replace-element-with-svg changes the
\* document, isProcessing was true when the change was made.
C31_MutationWhileBusy ==
    Mutated => ev.busy

\* the handlers that are no part of the applier
NonApplierHandlers ==
    {"selectionchange", "request-initial-selection", "request-ai-context",
     "backend-error", "unknown"}

\* C32: the resolver, request-initial-selection, request-ai-context on every
\* path and the backend-error, modification-error and default branches leave
\* the node tree, the geometry of every node and the selection as they were.
C32_OnlyApplierMutates ==
    [][(ev'.h \in NonApplierHandlers)
         => UNCHANGED <<children, geom, alloc, selection>>]_vars

\* request-ai-context went through both exports of a modify request and the
\* document is the initial one
C32_Witness ==
    /\ ev.h = "request-ai-context" /\ ev.seg = "export" /\ ev.out # "error"
    /\ children = InitChildren /\ geom = InitGeom
    /\ "proceed-to-backend-modify" \in PostedTypes

\* a handler invocation suspended at pc with these arguments
Suspended(h, pc, args) ==
    \E i \in 1..Len(tasks) :
        tasks[i].h = h /\ tasks[i].pc = pc /\ tasks[i].args = args

\* the same of the state a step leads to
SuspendedNext(h, pc, args) ==
    \E i \in 1..Len(tasks') :
        tasks'[i].h = h /\ tasks'[i].pc = pc /\ tasks'[i].args = args

\* C33: request-ai-context posts proceed-to-backend-create right after the
\* frame was fetched anew and found to be a frame, with no export started; it
\* posts proceed-to-backend-modify only when both exports have completed, and
\* the exports start only after the frame and then the element were fetched
\* anew and found.
C33_ProceedAfterValidation ==
    [][/\ "proceed-to-backend-create" \in PostedTypes'
            => /\ ev'.h = "request-ai-context" /\ ev'.seg = "frame"
               /\ ev'.args.mode = "create"
               /\ Suspended("request-ai-context", "frame", ev'.args)
               /\ ~Gone(ev'.args.frameId) /\ NodeType(ev'.args.frameId) = "FRAME"
       /\ "proceed-to-backend-modify" \in PostedTypes'
            => /\ ev'.h = "request-ai-context" /\ ev'.seg = "export"
               /\ ev'.args.mode = "modify" /\ ev'.fail = "none"
               /\ Suspended("request-ai-context", "export", ev'.args)
       /\ (ev'.h = "request-ai-context" /\ ev'.seg = "elem" /\ ev'.out = "suspended")
            => /\ Suspended("request-ai-context", "elem", ev'.args)
               /\ ~Gone(ev'.args.elemId)
               /\ SuspendedNext("request-ai-context", "export", ev'.args)
       /\ (ev'.h = "request-ai-context" /\ ev'.seg = "frame" /\ ev'.out = "suspended")
            => /\ ev'.args.mode = "modify"
               /\ ~Gone(ev'.args.frameId) /\ NodeType(ev'.args.frameId) = "FRAME"
               /\ SuspendedNext("request-ai-context", "elem", ev'.args)
      ]_vars

\* a modify request was dispatched after its two exports
C33_Witness ==
    /\ ev.h = "request-ai-context" /\ ev.seg = "export" /\ ev.out = "proceed"
    /\ ev.args.mode = "modify" /\ ev.args.elemId = "E"
    /\ PostedTypes = {"proceed-to-backend-modify"}

\* C34: in code.js, when the resolver runs twice in a row while idle, with no
\* change of the selection or the document in between, the second run posts
\* nothing and leaves lastNotifiedMode and lastNotifiedFrameId as they are.
C34_SecondRunSilent ==
    [][(/\ version = "oauth"
        /\ ResolverRan
        /\ ~isProcessing
        /\ ev'.h \in {"selectionchange", "request-initial-selection"})
         => /\ posted' = <<>>
            /\ lastNotifiedMode' = lastNotifiedMode
            /\ lastNotifiedFrameId' = lastNotifiedFrameId]_vars

\* a run of the resolver that found the context of element E already sent
C34_Witness ==
    /\ version = "oauth" /\ ResolverRan /\ ev.out = "quiet"
    /\ selection = <<"E">>
    /\ lastSent = Context("modify", "F2", "E")
    /\ posted = <<>>

\* the last step ended a handler that had taken up a request in answer mode
AnswerHandled ==
    /\ ev.h \in {"request-ai-context", "request-ai-generation"}
    /\ ev.args.mode = "answer"
    /\ ev.out \notin {"suspended", "ignored"}

\* C35: when request-ai-context (code.js) or request-ai-generation (part_001)
\* has handled a message with mode 'answer', the document is as it was, no
\* export was started for the request and isProcessing is false.
C35_AnswerEndsIdle ==
    [][AnswerHandled'
         => /\ UNCHANGED <<children, geom, alloc>>
            /\ ~SuspendedNext(ev'.h, "export", ev'.args)
            /\ ~isProcessing']_vars

\* C36: every accepted request returns the session to idle: when every lookup
\* and export returns and the UI answers every proceed-to-backend message,
\* isProcessing true leads to isProcessing false.
C36_ReturnsToIdle ==
    isProcessing ~> ~isProcessing

\* the handlers at whose end an operation ends
EndingHandlers ==
    {"request-ai-context", "request-ai-generation", "finalize-creation",
     "replace-element-with-svg", "backend-error"}

\* C37: isProcessing goes from true to false only at an error exit of the
\* request handler, at the end of finalize-creation or replace-element-with-svg
\* or on a backend-error or modification-error message; no other message, such
\* as request-initial-selection or one of unknown type, resets it.
C37_ResetOnlyAtEnd ==
    [][(isProcessing /\ ~isProcessing') => ev'.h \in EndingHandlers]_vars

\* C38: however many finalize-creation messages name the initially empty
\* frame F1 and however their lookups interleave, at most one of them inserts
\* a node: F1 never has more than one created node among its children.
C38_OneCreationPerFrame ==
    Cardinality(Range(children["F1"]) \cap NewIds) <= 1

\* a second finalize-creation for F1 found the node of the first and gave up
C38_Witness ==
    /\ FinalizeEnded("error") /\ ev.fail = "none" /\ ev.new = Null
    /\ ev.args.frameId = "F1"
    /\ Len(children["F1"]) = 1
    /\ children["F1"][1] \in NewIds

\* the node is gone from the document a step leads to
GoneNext(id) == id \notin alloc' \/ ~AttachedIn(children', id)

\* C39: of the replace-element-with-svg messages that name the same original
\* at most one replaces it.  A replacement succeeds only on an original that
\* is in the document and leaves it removed, a removed original stays removed,
\* and the handler that finds the original removed when its lookup resumes
\* gives up with an error: it creates and inserts no node and the document,
\* the parent's children among it, stays as it was.
C39_OneReplacementPerOriginal ==
    [][/\ Gone("E") => Gone("E")'
       /\ (ev'.h = "replace-element-with-svg" /\ ev'.seg = "elem"
              /\ ev'.out # "unhandled")
            => LET o == ev'.args.elemId
               IN /\ Gone(o) => /\ ev'.out = "error" /\ ev'.new = Null
                                /\ UNCHANGED <<children, geom, alloc>>
                  /\ ev'.out = "success" => ~Gone(o) /\ GoneNext(o)
      ]_vars

\* the second of two messages for E found E replaced already and gave up: F2
\* holds one replacement node in the place of E
C39_Witness ==
    /\ ReplaceEnded("error") /\ ev.new = Null
    /\ ev.args.elemId = "E" /\ Gone("E")
    /\ \E n \in NewIds : children["F2"] = <<"T", n, "S">>
    /\ Cardinality(alloc \cap NewIds) = 1

\* the messages by which request-ai-context reports how it ended
ContextOutcomes ==
    {"proceed-to-backend-create", "proceed-to-backend-modify", "backend-error"}

\* a step that ends an invocation of request-ai-context which passed the busy
\* guard, with no other handler between its parts: it ends in the part that
\* took the message up, or the step before was the invocation's previous part
ContextEndsUndisturbed ==
    /\ ev'.h = "request-ai-context"
    /\ ev'.out \notin {"suspended", "ignored"}
    /\ \/ ev'.seg = "start"
       \/ /\ ev.h = "request-ai-context" /\ ev.out = "suspended"
          /\ ev.args = ev'.args
          /\ <<ev.seg, ev'.seg>> \in {<<"start", "frame">>, <<"frame", "elem">>,
                                       <<"elem", "export">>}
          /\ isProcessing /\ Len(tasks) = 1

\* C40: when an invocation of request-ai-context that passed the busy guard
\* ends and no other handler ran in between, it has posted exactly one of
\* proceed-to-backend-create, proceed-to-backend-modify and backend-error, and
\* isProcessing is true exactly if that message is a proceed-to-backend one.
C40_OneOutcomePosted ==
    [][ContextEndsUndisturbed
         => /\ Cardinality({i \in 1..Len(posted') :
                               posted'[i].type \in ContextOutcomes}) = 1
            /\ isProcessing' <=> "backend-error" \notin PostedTypes']_vars

====
